---- MODULE Spec2Model ----
(***************************************************************************)
(* Model of pycstbox.modbus (cstbox/ext-modbus):                           *)
(*   RTUModbusHALDevice  - registration of the shared serial port          *)
(*   RTUModbusHALDevice  - poll (ValueError reported as CRCError)          *)
(*   ModbusRegister      - register descriptors and their unpack format    *)
(*   RTUModbusHWDevice   - _read_registers / unpack_registers / reset      *)
(* The serial line, minimalmodbus.Instrument.read_string and               *)
(* minimalmodbus.register_serial_port are external collaborators: their    *)
(* outcomes are nondeterministic choices over what they can produce.       *)
(***************************************************************************)
EXTENDS Integers, Sequences, FiniteSets, TLC

\* ------------------------------------------------------------------ bounds
MaxRetries == 3
MaxReads == 1
MaxRegCount == 2
MaxRegistrations == 3
MaxSize == 3

\* ------------------------------------------------------- program constants
DEFAULT_RETRIES == 3

\* defaults imported from minimalmodbus (values live outside this repository)
BAUDRATE == "BAUDRATE"
PARITY == "PARITY"
BYTESIZE == "BYTESIZE"
STOPBITS == "STOPBITS"
TIMEOUT == "TIMEOUT"

\* ------------------------------------------------------------ input domains
Devices == {1, 2}
Ports == {"/dev/ttyUSB0", "/dev/ttyUSB1"}
Addrs == {0, 7}
Formats == {">h", ">H", ">i", ">I"}
SampleBuffers == {<<0, 42>>, <<255, 255>>, <<0, 0, 0, 42>>, <<255, 255, 255, 254>>}

\* coordinator configurations: attributes may be absent (getattr defaults);
\* framing values are opaque tokens, told apart from the imported defaults
CoordCfgs ==
    UNION {{[port |-> p],
            [port |-> p, baudrate |-> "9600"],
            [port |-> p, baudrate |-> "9600", parity |-> "E", timeout |-> "1.0"]} : p \in Ports}

\* --------------------------------------------------------------- values
None == [kind |-> "None"]
Nothing == [kind |-> "nothing"]
Str(b) == [kind |-> "str", bytes |-> b]
IOError == [kind |-> "IOError"]
ValueError == [kind |-> "ValueError"]
Faults == {IOError, ValueError}

Return(v) == [kind |-> "return", value |-> v]
CommunicationError(unit, e) == [kind |-> "raise", exc |-> "CommunicationError", unit |-> unit, cause |-> e]
CRCError(unit, e) == [kind |-> "raise", exc |-> "CRCError", unit |-> unit, cause |-> e]
HalError(start, count) == [kind |-> "raise", exc |-> "HalError", start |-> start, count |-> count]
StructError == [kind |-> "raise", exc |-> "struct.error"]

\* ------------------------------------------------------------------ state
VARIABLES serial_ports, registrations, dev, call, hist, trace, codec, polled

vars == <<serial_ports, registrations, dev, call, hist, trace, codec, polled>>

\* the state of the codec and of the HAL polls, untouched by the hardware devices
aux == <<codec, polled>>

getattr(obj, name, default) == IF name \in DOMAIN obj THEN obj[name] ELSE default

\* ------------------------------------------------------------------ codec
\* A Python integer v is held as its two 16 bit halves, v = hi * 65536 + lo
\* with lo in 0..65535, so that 32 bit unsigned values stay representable.
PyInt(hi, lo) == [hi |-> hi, lo |-> lo]
Value(v) == v.hi * 65536 + v.lo

\* the 16 bit big-endian word at bytes[i], bytes[i+1]
Word(bytes, i) == bytes[i] * 256 + bytes[i + 1]

\* formats with the '>' prefix are big-endian, standard size; the others are
\* read in the byte order of the host (sys.byteorder)
BigEndianFormats == {">h", ">H", ">i", ">I"}
NativeFormats == {"h", "H", "i", "I"}
ByteOrders == {"little", "big"}

ByteOrder(fmt) == IF fmt \in BigEndianFormats THEN "big" ELSE codec.host

\* calcsize(fmt); the native int is 4 bytes on the supported platforms
FormatSize(fmt) == IF fmt \in {">h", ">H", "h", "H"} THEN 2 ELSE 4
FormatSigned(fmt) == fmt \in {">h", ">i", "h", "i"}

\* the first n bytes of data, most significant byte first
Significant(order, n, bytes) ==
    IF order = "big" THEN SubSeq(bytes, 1, n) ELSE [i \in 1..n |-> bytes[n + 1 - i]]

\* mutant of unpack_from: the sign of the format is ignored
unpack_from_noSign(fmt, bytes) ==
    LET n == FormatSize(fmt)
        raw == Significant(ByteOrder(fmt), n, bytes)
    IN  IF Len(bytes) < n THEN StructError
        ELSE IF n = 2 THEN Return(<<PyInt(0, Word(raw, 1))>>)
        ELSE Return(<<PyInt(Word(raw, 1), Word(raw, 3))>>)

\* struct.unpack_from(fmt, data): decodes the first calcsize(fmt) bytes of
\* data, struct.error when data is shorter
unpack_from(fmt, bytes) ==
    LET n == FormatSize(fmt)
        raw == Significant(ByteOrder(fmt), n, bytes)
        top == Word(raw, 1)
        neg == FormatSigned(fmt) /\ top >= 32768
    IN  IF Len(bytes) < n THEN StructError
        ELSE IF n = 2 THEN Return(<<PyInt(IF neg THEN -1 ELSE 0, top)>>)
        ELSE Return(<<PyInt(IF neg THEN top - 65536 ELSE top, Word(raw, 3))>>)

\* ------------------------------------------------------ register descriptors
\* the ways ModbusRegister(...) is called: arguments left out take the
\* defaults of __new__
RegisterCalls ==
    UNION {{[addr |-> a]} \cup
           {[addr |-> a, size |-> n] : n \in 1..MaxSize} \cup
           {[addr |-> a, signed |-> g] : g \in BOOLEAN} \cup
           {[addr |-> a, size |-> n, cfgreg |-> c, signed |-> g] :
                n \in 1..MaxSize, c \in BOOLEAN, g \in BOOLEAN} : a \in Addrs}

\* ModbusRegister.__new__(cls, addr, size=1, cfgreg=False, signed=False)
ModbusRegister(args) ==
    [addr |-> args.addr,
     size |-> getattr(args, "size", 1),
     cfgreg |-> getattr(args, "cfgreg", FALSE),
     signed |-> getattr(args, "signed", FALSE)]

\* ModbusRegister.decode: the default decoding is the identity
decode(raw) == raw

Lower(fmt) == IF fmt = "H" THEN "h" ELSE "i"

\* mutant of unpack_format: a configuration register is read as 16 bits
ModbusRegister_unpack_format_cfgreg(self) ==
    LET fmt == IF self.size = 1 \/ self.cfgreg THEN "H" ELSE "I"
    IN  IF self.signed THEN Lower(fmt) ELSE fmt

\* ModbusRegister.unpack_format
ModbusRegister_unpack_format(self) ==
    LET fmt == IF self.size = 1 THEN "H" ELSE "I"
    IN  IF self.signed THEN Lower(fmt) ELSE fmt

\* the values written in a format, at the edges of its range
SampleWords == {0, 1, 42, 32767, 32768, 65535}

Representable(fmt) ==
    IF FormatSize(fmt) = 2
    THEN {PyInt(IF FormatSigned(fmt) /\ w >= 32768 THEN -1 ELSE 0, w) : w \in SampleWords}
    ELSE {PyInt(IF FormatSigned(fmt) /\ w >= 32768 THEN w - 65536 ELSE w, lo) :
              w \in SampleWords, lo \in {0, 42, 65535}}

\* the encoding that mirrors unpack_from: struct.pack(fmt, v)
pack(fmt, v) ==
    LET top == IF v.hi < 0 THEN v.hi + 65536 ELSE v.hi
        big == IF FormatSize(fmt) = 2
               THEN <<v.lo \div 256, v.lo % 256>>
               ELSE <<top \div 256, top % 256, v.lo \div 256, v.lo % 256>>
    IN  Significant(ByteOrder(fmt), FormatSize(fmt), big)

\* the formats a caller hands to unpack_registers for a register: the default
\* of the parameter, the register's own format, or the latter made big-endian
FormatFor(reg, mode) ==
    IF mode = "default" THEN ">h"
    ELSE IF mode = "own" THEN ModbusRegister_unpack_format(reg)
    ELSE ">" \o ModbusRegister_unpack_format(reg)

Modes == {"default", "own", "prefixed"}

NewCodec(host, args) ==
    [stage |-> "new", host |-> host, args |-> args, reg |-> ModbusRegister(args), mode |-> "",
     fmt |-> "", bytes |-> <<>>, value |-> PyInt(0, 0), result |-> Nothing]

\* the caller picks the unpack format for the register
TakeFormat(mode) ==
    /\ codec.stage = "new"
    /\ codec' = [codec EXCEPT !.stage = "format", !.mode = mode, !.fmt = FormatFor(codec.reg, mode)]
    /\ UNCHANGED <<serial_ports, registrations, dev, call, hist, trace, polled>>

\* return struct.unpack_from(unpack_format, data), data being the bytes read
Decode(bytes) ==
    /\ codec.stage = "format"
    /\ codec' = [codec EXCEPT !.stage = "decoded", !.bytes = bytes,
                     !.result = unpack_from(codec.fmt, bytes)]
    /\ UNCHANGED <<serial_ports, registrations, dev, call, hist, trace, polled>>

\* a value is encoded in the format
Encode(v) ==
    /\ codec.stage = "format"
    /\ codec' = [codec EXCEPT !.stage = "encoded", !.value = v, !.bytes = pack(codec.fmt, v)]
    /\ UNCHANGED <<serial_ports, registrations, dev, call, hist, trace, polled>>

\* the encoded bytes are unpacked and decoded again
DecodeEncoded ==
    /\ codec.stage = "encoded"
    /\ LET r == unpack_from(codec.fmt, codec.bytes)
       IN  codec' = [codec EXCEPT !.stage = "roundtrip",
                        !.result = IF r.kind = "return" THEN Return(<<decode(r.value[1])>>) ELSE r]
    /\ UNCHANGED <<serial_ports, registrations, dev, call, hist, trace, polled>>

InitCodec ==
    /\ serial_ports = <<>>
    /\ registrations = <<>>
    /\ dev = <<>>
    /\ call = <<>>
    /\ hist = <<>>
    /\ trace = <<>>
    /\ polled = <<>>
    /\ \E host \in ByteOrders : \E args \in RegisterCalls :
          codec = NewCodec(host, args)

NextCodec ==
    \/ \E mode \in Modes : TakeFormat(mode)
    \/ \E bytes \in SampleBuffers : Decode(bytes)
    \/ \E v \in Representable(codec.fmt) : Encode(v)
    \/ DecodeEncoded

SpecCodec == InitCodec /\ [][NextCodec]_vars

\* ------------------------------------------------------- shared serial ports
\* minimalmodbus.register_serial_port(name, **cfg): the channel for name is
\* created if the name is not yet known, otherwise the call changes nothing
register_serial_port(ports, name, cfg) ==
    IF name \in DOMAIN ports THEN ports
    ELSE ports @@ (name :> [handle |-> Cardinality(DOMAIN ports) + 1, open |-> TRUE,
                            baudrate |-> cfg.baudrate, parity |-> cfg.parity,
                            bytesize |-> cfg.bytesize, stopbits |-> cfg.stopbits,
                            timeout |-> cfg.timeout])

port_cfg(coord_cfg) ==
    [baudrate |-> getattr(coord_cfg, "baudrate", BAUDRATE),
     parity |-> getattr(coord_cfg, "parity", PARITY),
     bytesize |-> getattr(coord_cfg, "bytesize", BYTESIZE),
     stopbits |-> getattr(coord_cfg, "stopbits", STOPBITS),
     timeout |-> getattr(coord_cfg, "timeout", TIMEOUT)]

\* mutant of PortName: the port is registered under a per-device name
PortName_perDevice(coord_cfg, dev_cfg) == coord_cfg.port \o "#" \o ToString(dev_cfg.address)

\* the name RTUModbusHALDevice.__init__ registers the port under
PortName(coord_cfg, dev_cfg) == coord_cfg.port

\* mutant of RTUModbusHALDevice_init: the framing of a known port is overwritten
RTUModbusHALDevice_init_reconfigure(ports, coord_cfg, dev_cfg) ==
    LET name == PortName(coord_cfg, dev_cfg)
        cfg == port_cfg(coord_cfg)
        known == register_serial_port(ports, name, cfg)
    IN  [known EXCEPT ![name] = [@ EXCEPT !.baudrate = cfg.baudrate, !.parity = cfg.parity,
                                            !.bytesize = cfg.bytesize, !.stopbits = cfg.stopbits,
                                            !.timeout = cfg.timeout]]

\* RTUModbusHALDevice.__init__: the dictionary of shared ports after the call
RTUModbusHALDevice_init(ports, coord_cfg, dev_cfg) ==
    register_serial_port(ports, PortName(coord_cfg, dev_cfg), port_cfg(coord_cfg))

DevCfgs == [address : Devices]

\* construction of one RTUModbusHALDevice
Construct(coord_cfg, dev_cfg) ==
    /\ Len(registrations) < MaxRegistrations
    /\ LET after == RTUModbusHALDevice_init(serial_ports, coord_cfg, dev_cfg)
       IN  /\ serial_ports' = after
           /\ registrations' = Append(registrations,
                  [port |-> coord_cfg.port, cfg |-> port_cfg(coord_cfg),
                   unit |-> dev_cfg.address,
                   created |-> Cardinality(DOMAIN after) > Cardinality(DOMAIN serial_ports),
                   channel |-> after[PortName(coord_cfg, dev_cfg)]])
    /\ UNCHANGED <<dev, call, hist, trace, aux>>

InitRegistry ==
    /\ serial_ports = <<>>
    /\ registrations = <<>>
    /\ dev = <<>>
    /\ call = <<>>
    /\ hist = <<>>
    /\ trace = <<>>
    /\ codec = <<>>
    /\ polled = <<>>

NextRegistry == \E coord_cfg \in CoordCfgs, dev_cfg \in DevCfgs : Construct(coord_cfg, dev_cfg)

SpecRegistry == InitRegistry /\ [][NextRegistry]_vars

\* ------------------------------------------------------ RTUModbusHWDevice
\* RTUModbusHWDevice.__init__
RTUModbusHWDevice_init(port, unit_id, retries) ==
    [port |-> port, address |-> unit_id,
     first_poll |-> TRUE, poll_req_interval |-> 0, retries |-> retries,
     terminate |-> FALSE, communication_error |-> FALSE,
     total_reads |-> 0, total_errors |-> 0]

unit_id(self) == self.address

\* the shared channel a device is bound to
serial(self) == serial_ports[self.port]

\* what the line answers to one underlying read of reg_count registers:
\* an I/O failure, an integrity failure, no data, or 2 * reg_count bytes
LineOutcomes(reg_count) ==
    Faults \cup {None} \cup {Str(b) : b \in {x \in SampleBuffers : Len(x) = 2 * reg_count}}

\* the answers of the line to the successive attempts of one logical read:
\* faults up to a last answer (what follows a non-fault answer is never read)
Plans(reg_count) ==
    UNION {{p \in [1..n -> LineOutcomes(reg_count)] : \A i \in 1..(n - 1) : p[i] \in Faults}
           : n \in 1..MaxRetries}

Idle ==
    [pc |-> "idle", op |-> "none", start_addr |-> 0, reg_count |-> 0, unpack_format |-> "",
     flushed |-> FALSE, attempts |-> 0, plan |-> <<>>, data |-> Nothing, result |-> Nothing,
     step |-> 0]

Calls ==
    [op : {"_read_registers"}, start_addr : Addrs, reg_count : 1..MaxRegCount, unpack_format : {">h"}]
    \cup [op : {"unpack_registers"}, start_addr : Addrs, reg_count : 1..MaxRegCount, unpack_format : Formats]

InFlight(d) == call[d].pc \in {"isOpen", "flushInput", "flushOutput", "read_string", "response"}

\* one step of device d on or around its channel, as it is logged
Did(d, op, ms) ==
    [unit |-> dev[d].address, op |-> op, open |-> serial(dev[d]).open, ms |-> ms]

\* no other device has a call in progress on the channel
Quiet(d) == \A e \in Devices \ {d} : call[e].pc \in {"idle", "unpack", "done"}

ReadsBegun == Cardinality({d \in Devices : InFlight(d)}) + hist[1].reads + hist[2].reads

\* a caller enters _read_registers, directly or through unpack_registers
Begin(d, c) ==
    /\ call[d].pc = "idle"
    /\ call' = [call EXCEPT ![d] = [Idle EXCEPT !.pc = "isOpen", !.op = c.op,
                   !.start_addr = c.start_addr, !.reg_count = c.reg_count,
                   !.unpack_format = c.unpack_format]]
    /\ trace' = IF Quiet(d) THEN <<>> ELSE trace
    /\ UNCHANGED <<serial_ports, registrations, dev, hist, aux>>

\* mutant of isOpen: the buffers are flushed when the channel is closed
isOpen_inverted(d) ==
    /\ call[d].pc = "isOpen"
    /\ call' = [call EXCEPT ![d].pc = IF serial(dev[d]).open THEN "read_string" ELSE "flushInput"]
    /\ UNCHANGED <<serial_ports, registrations, dev, hist, trace, aux>>

\* if self.serial.isOpen():
isOpen(d) ==
    /\ call[d].pc = "isOpen"
    /\ call' = [call EXCEPT ![d].pc = IF serial(dev[d]).open THEN "flushInput" ELSE "read_string"]
    /\ UNCHANGED <<serial_ports, registrations, dev, hist, trace, aux>>

\* self.serial.flushInput()
flushInput(d) ==
    /\ call[d].pc = "flushInput"
    /\ call' = [call EXCEPT ![d].pc = "flushOutput"]
    /\ trace' = Append(trace, Did(d, "flushInput", 0))
    /\ UNCHANGED <<serial_ports, registrations, dev, hist, aux>>

\* self.serial.flushOutput()
flushOutput(d) ==
    /\ call[d].pc = "flushOutput"
    /\ call' = [call EXCEPT ![d].pc = "read_string", ![d].flushed = TRUE]
    /\ trace' = Append(trace, Did(d, "flushOutput", 0))
    /\ UNCHANGED <<serial_ports, registrations, dev, hist, aux>>

\* self.read_string(start_addr, reg_count): the request is sent
ReadRequest(d) ==
    /\ call[d].pc = "read_string"
    /\ call' = [call EXCEPT ![d].pc = "response", ![d].attempts = @ + 1]
    /\ trace' = Append(trace, Did(d, "read_string", 0))
    /\ UNCHANGED <<serial_ports, registrations, dev, hist, aux>>

\* mutant of read_registers_outcome: the two fault kinds are swapped
read_registers_outcome_swapped(self, o) ==
    IF o = IOError THEN CRCError(unit_id(self), o)
    ELSE IF o = ValueError THEN CommunicationError(unit_id(self), o)
    ELSE Return(o)

\* the try / except / else of _read_registers around read_string
read_registers_outcome(self, o) ==
    IF o = IOError THEN CommunicationError(unit_id(self), o)
    ELSE IF o = ValueError THEN CRCError(unit_id(self), o)
    ELSE Return(o)

\* the history of a device after one more completed logical read
Completed(h, o) ==
    [reads |-> h.reads + 1,
     reached |-> h.reached + 1,
     faulted |-> h.faulted + (IF o \in Faults THEN 1 ELSE 0),
     last |-> IF o \in Faults THEN "failed" ELSE "ok"]

\* mutant of ReadResponse: a faulted attempt is retried whatever the budget
ReadResponse_retryAlways(d, plan) ==
    /\ call[d].pc = "response"
    /\ plan \in Plans(call[d].reg_count)
    /\ call[d].attempts = 1 \/ plan = call[d].plan
    /\ call[d].attempts <= Len(plan)
    /\ LET o == plan[call[d].attempts]
           r == read_registers_outcome(dev[d], o)
       IN  IF o \in Faults /\ call[d].attempts < Len(plan)
           THEN /\ call' = [call EXCEPT ![d].pc = "read_string", ![d].plan = plan]
                /\ UNCHANGED hist
           ELSE /\ call' = [call EXCEPT ![d].pc = "done", ![d].plan = plan, ![d].result = r]
                /\ hist' = [hist EXCEPT ![d] = Completed(@, o)]
    /\ UNCHANGED <<serial_ports, registrations, dev, trace, aux>>

\* mutant of ReadResponse: a fault leaves the channel closed
ReadResponse_closeOnFault(d, plan) ==
    /\ call[d].pc = "response"
    /\ plan \in Plans(call[d].reg_count)
    /\ call[d].attempts = 1 \/ plan = call[d].plan
    /\ call[d].attempts <= Len(plan)
    /\ LET o == plan[call[d].attempts]
           r == read_registers_outcome(dev[d], o)
       IN  /\ call' = [call EXCEPT ![d].plan = plan,
                  ![d].pc = IF r.kind = "return" /\ call[d].op = "unpack_registers"
                            THEN "unpack" ELSE "done",
                  ![d].data = IF r.kind = "return" THEN r.value ELSE Nothing,
                  ![d].result = IF r.kind = "return" /\ call[d].op = "unpack_registers"
                                THEN Nothing ELSE r]
           /\ hist' = [hist EXCEPT ![d] = Completed(@, o)]
           /\ serial_ports' = IF o \in Faults
                               THEN [serial_ports EXCEPT ![dev[d].port].open = FALSE]
                               ELSE serial_ports
    /\ UNCHANGED <<registrations, dev, trace, aux>>

\* read_string answers (plan: what the line answers to this attempt and would
\* answer to the next ones); _read_registers returns the data or raises
ReadResponse(d, plan) ==
    /\ call[d].pc = "response"
    /\ plan \in Plans(call[d].reg_count)
    /\ call[d].attempts = 1 \/ plan = call[d].plan
    /\ call[d].attempts <= Len(plan)
    /\ LET o == plan[call[d].attempts]
           r == read_registers_outcome(dev[d], o)
       IN  /\ call' = [call EXCEPT ![d].plan = plan,
                  ![d].pc = IF r.kind = "return" /\ call[d].op = "unpack_registers"
                            THEN "unpack" ELSE "done",
                  ![d].data = IF r.kind = "return" THEN r.value ELSE Nothing,
                  ![d].result = IF r.kind = "return" /\ call[d].op = "unpack_registers"
                                THEN Nothing ELSE r]
           /\ hist' = [hist EXCEPT ![d] = Completed(@, o)]
    /\ UNCHANGED <<serial_ports, registrations, dev, trace, aux>>

\* mutant of unpack_outcome: missing data is handed to the decoder
unpack_outcome_noCheck(start_addr, reg_count, unpack_format, data) ==
    IF data = None THEN StructError ELSE unpack_from(unpack_format, data.bytes)

\* unpack_registers after _read_registers has returned data
unpack_outcome(start_addr, reg_count, unpack_format, data) ==
    IF data = None THEN HalError(start_addr, reg_count)
    ELSE unpack_from(unpack_format, data.bytes)

Unpack(d) ==
    /\ call[d].pc = "unpack"
    /\ call' = [call EXCEPT ![d].pc = "done",
           ![d].result = unpack_outcome(call[d].start_addr, call[d].reg_count,
                                        call[d].unpack_format, call[d].data)]
    /\ UNCHANGED <<serial_ports, registrations, dev, hist, trace, aux>>

\* the caller has taken the result (or caught the error)
Finish(d) ==
    /\ call[d].pc = "done"
    /\ call' = [call EXCEPT ![d] = Idle]
    /\ UNCHANGED <<serial_ports, registrations, dev, hist, trace, aux>>

\* time.sleep(0.1) in reset_communications, in milliseconds
SettleMs == 100

\* mutant of reset_communications: the channel is opened before it is closed
reset_communications_swapped(self) ==
    << [op |-> "open", ms |-> 0],
       [op |-> "sleep", ms |-> 1000 * self.poll_req_interval],
       [op |-> "close", ms |-> 0],
       [op |-> "sleep", ms |-> SettleMs],
       [op |-> "flushInput", ms |-> 0],
       [op |-> "flushOutput", ms |-> 0] >>

\* the steps of reset_communications, in the order of its statements
reset_communications(self) ==
    << [op |-> "close", ms |-> 0],
       [op |-> "sleep", ms |-> 1000 * self.poll_req_interval],
       [op |-> "open", ms |-> 0],
       [op |-> "sleep", ms |-> SettleMs],
       [op |-> "flushInput", ms |-> 0],
       [op |-> "flushOutput", ms |-> 0] >>

\* reset_device does nothing by default
reset_device(self) == << [op |-> "reset_device", ms |-> 0] >>

reset(self) == reset_communications(self) \o reset_device(self)

\* reset() is called on device d
ResetBegin(d) ==
    /\ call[d].pc = "idle"
    /\ call' = [call EXCEPT ![d] = [Idle EXCEPT !.pc = "reset", !.op = "reset", !.step = 1]]
    /\ trace' = IF Quiet(d) THEN <<>> ELSE trace
    /\ UNCHANGED <<serial_ports, registrations, dev, hist, aux>>

\* the next statement of reset() runs
ResetStep(d) ==
    /\ call[d].pc = "reset"
    /\ LET prog == reset(dev[d])
           stmt == prog[call[d].step]
       IN  /\ serial_ports' =
                  IF stmt.op = "close" THEN [serial_ports EXCEPT ![dev[d].port].open = FALSE]
                  ELSE IF stmt.op = "open" THEN [serial_ports EXCEPT ![dev[d].port].open = TRUE]
                  ELSE serial_ports
           /\ trace' = Append(trace, Did(d, stmt.op, stmt.ms))
           /\ call' = IF call[d].step = Len(prog)
                       THEN [call EXCEPT ![d].pc = "done", ![d].result = Return(None)]
                       ELSE [call EXCEPT ![d].step = @ + 1]
    /\ UNCHANGED <<registrations, dev, hist, aux>>

\* one step of device d's own code
Step(d) ==
    \/ isOpen(d)
    \/ flushInput(d)
    \/ flushOutput(d)
    \/ ReadRequest(d)
    \/ \E plan \in Plans(call[d].reg_count) : ReadResponse(d, plan)
    \/ Unpack(d)
    \/ Finish(d)

\* two devices with unit ids 1 and 2 constructed on the same port
SharedPort == "/dev/ttyUSB0"

Init ==
    /\ \E open \in BOOLEAN :
          LET one == RTUModbusHALDevice_init(<<>>, [port |-> SharedPort], [address |-> 1])
              two == RTUModbusHALDevice_init(one, [port |-> SharedPort], [address |-> 2])
          IN  serial_ports = [n \in DOMAIN two |-> [two[n] EXCEPT !.open = open]]
    /\ registrations = <<>>
    /\ \E r \in 1..MaxRetries :
          dev = [d \in Devices |->
                    RTUModbusHWDevice_init(SharedPort, d, IF d = 1 THEN r ELSE DEFAULT_RETRIES)]
    /\ call = [d \in Devices |-> Idle]
    /\ hist = [d \in Devices |-> [reads |-> 0, reached |-> 0, faulted |-> 0, last |-> "none"]]
    /\ trace = <<>>
    /\ codec = <<>>
    /\ polled = <<>>

\* the polling scheduler serialises the reads of the devices (MaxReads reads
\* in all)
Next ==
    \E d \in Devices :
        \/ /\ \A e \in Devices : call[e].pc = "idle"
           /\ ReadsBegun < MaxReads
           /\ \E c \in Calls : Begin(d, c)
        \/ Step(d)
        \/ /\ \A e \in Devices : call[e].pc = "idle"
           /\ ResetBegin(d)
        \/ ResetStep(d)

Spec == Init /\ [][Next]_vars

ThreadCalls == {c \in Calls : c.start_addr = 0 /\ c.reg_count = 1 /\ c.unpack_format = ">h"}

\* each device is polled by its own thread (MaxReads reads per thread)
NextThreads ==
    \E d \in Devices :
        \/ /\ hist[d].reads < MaxReads
           /\ \E c \in ThreadCalls : Begin(d, c)
        \/ Step(d)

SpecThreads == Init /\ [][NextThreads]_vars

\* ------------------------------------------------------------- HAL poll
\* the ids of the HAL devices (device_id, set by PolledDevice from dev_cfg)
DeviceIds == {11, 12}

\* an exception raised as it is, e being the exception object
Raised(e) == [kind |-> "raise", exc |-> e.kind, error |-> e]

UnicodeDecodeError == [kind |-> "UnicodeDecodeError"]

\* the exception classes that "except ValueError" catches: ValueError and its
\* subclasses; CommunicationError, CRCError and HalError are not among them
ValueErrors == {"ValueError", "UnicodeDecodeError"}

\* what PolledDevice.poll can end with: the polled values, or an exception
BasePollOutcomes ==
    {Return(v) : v \in {<<>>, <<PyInt(0, 42)>>, <<PyInt(-1, 65535), PyInt(0, 0)>>}}
    \cup {Raised(e) : e \in {ValueError, UnicodeDecodeError, IOError}}
    \cup {CommunicationError(u, IOError) : u \in Devices}
    \cup {CRCError(u, ValueError) : u \in Devices}
    \cup {HalError(0, 1), StructError}

\* mutant of RTUModbusHALDevice_poll: every exception is reported as a CRC error
RTUModbusHALDevice_poll_catchAll(self, base) ==
    IF base.kind = "raise"
    THEN CRCError(self.device_id, IF "error" \in DOMAIN base THEN base.error ELSE base)
    ELSE base

\* RTUModbusHALDevice.poll: try: return super().poll()
\*                          except ValueError as e: raise CRCError(self.device_id, e)
RTUModbusHALDevice_poll(self, base) ==
    IF base.kind = "raise" /\ base.exc \in ValueErrors
    THEN CRCError(self.device_id, base.error)
    ELSE base

\* the HAL device id is polled, the base poll ending with base
Poll(id, base) ==
    /\ polled' = [polled EXCEPT ![id] =
                     [base |-> base, result |-> RTUModbusHALDevice_poll([device_id |-> id], base)]]
    /\ UNCHANGED <<serial_ports, registrations, dev, call, hist, trace, codec>>

InitPoll ==
    /\ serial_ports = RTUModbusHALDevice_init(<<>>, [port |-> SharedPort], [address |-> 1])
    /\ registrations = <<>>
    /\ dev = <<>>
    /\ call = <<>>
    /\ hist = <<>>
    /\ trace = <<>>
    /\ codec = <<>>
    /\ polled = [id \in DeviceIds |-> Nothing]

NextPoll == \E id \in DeviceIds : \E base \in BasePollOutcomes : Poll(id, base)

SpecPoll == InitPoll /\ [][NextPoll]_vars

\* ================================================================= claims
\* _read_registers of device d has ended (returned or raised)
ReadEnded(d) == call[d].pc \in {"unpack", "done"} /\ call[d].op # "reset"

\* what _read_registers of device d returned or raised
ReadOutcome(d) == IF call[d].data # Nothing THEN Return(call[d].data) ELSE call[d].result

\* the answer the line gave to the last attempt of device d's read
LastAnswer(d) == call[d].plan[call[d].attempts]

\* C1: for every budget R >= 1 and N in 1..R, a logical read whose first N-1
\* attempts fault and whose Nth attempt succeeds returns the data of the Nth
\* attempt, raises nothing and leaves communication_error false.
C1_RecoversWithinBudget ==
    \A d \in Devices : \A N \in 1..dev[d].retries :
        (/\ ReadEnded(d)
         /\ N <= Len(call[d].plan)
         /\ \A i \in 1..(N - 1) : call[d].plan[i] \in Faults
         /\ call[d].plan[N].kind = "str")
        => /\ ReadOutcome(d) = Return(call[d].plan[N])
           /\ dev[d].communication_error = FALSE

\* C2: a logical read whose underlying read faults on all retryBudget attempts
\* ends by raising CommunicationError or CRCError with communication_error
\* true, never by returning None or empty data.
C2_ExhaustedRaisesAndFlags ==
    \A d \in Devices :
        (/\ ReadEnded(d)
         /\ dev[d].retries <= Len(call[d].plan)
         /\ \A i \in 1..dev[d].retries : call[d].plan[i] \in Faults)
        => /\ ReadOutcome(d).kind = "raise"
           /\ ReadOutcome(d).exc \in {"CommunicationError", "CRCError"}
           /\ dev[d].communication_error = TRUE

Rank(pc) ==
    CASE pc = "idle" -> 0
      [] pc = "isOpen" -> 1
      [] pc = "flushInput" -> 2
      [] pc = "flushOutput" -> 3
      [] pc = "read_string" -> 4
      [] pc = "response" -> 5
      [] pc = "unpack" -> 6
      [] pc = "done" -> 7

\* the attempts of a logical read stay within the budget, an ended read made
\* at least one attempt and returned or raised, a read in progress can always
\* take its next step, and a device built without retries has the default 3
BoundedAttempts ==
    /\ dev[2].retries = 3
    /\ \A d \in Devices :
          /\ call[d].attempts <= dev[d].retries
          /\ ReadEnded(d) => (call[d].attempts >= 1 /\ ReadOutcome(d).kind \in {"return", "raise"})
          /\ InFlight(d) => ENABLED Step(d)

\* every step of a logical read in progress moves it forward
Progress ==
    \A d \in Devices :
        (InFlight(d) /\ call'[d] # call[d]) =>
            \/ Rank(call'[d].pc) > Rank(call[d].pc)
            \/ call'[d].attempts > call[d].attempts /\ call'[d].attempts <= dev[d].retries

C5_FlagTracksLastRead ==
    \A d \in Devices : dev[d].communication_error = (hist[d].last = "failed")

\* C6: total_errors equals the number of underlying read attempts that
\* faulted, and total_reads never exceeds the number of attempts that reached
\* the underlying read call.
C6_CountersTrackAttempts ==
    \A d \in Devices :
        /\ dev[d].total_errors = hist[d].faulted
        /\ dev[d].total_reads <= hist[d].reached

\* the registrations made before registration i for the same port name
Earlier(i) == {j \in 1..(i - 1) : registrations[j].port = registrations[i].port}

\* the first registration of the port name of registration i
First(i) == IF Earlier(i) = {} THEN i ELSE CHOOSE j \in Earlier(i) : \A k \in Earlier(i) : j <= k

\* C7: there is exactly one channel per distinct port name: registrations of
\* the same name get the same channel handle, and a later registration of a
\* known name neither creates nor replaces a channel.
C7_OneChannelPerPort ==
    LET names == {registrations[i].port : i \in DOMAIN registrations}
    IN  /\ Cardinality(DOMAIN serial_ports) = Cardinality(names)
        /\ Cardinality({serial_ports[n].handle : n \in DOMAIN serial_ports}) = Cardinality(names)
        /\ Cardinality({i \in DOMAIN registrations : registrations[i].created}) = Cardinality(names)
        /\ \A i \in DOMAIN registrations :
              /\ registrations[i].channel.handle = registrations[First(i)].channel.handle
              /\ registrations[i].created <=> (First(i) = i)
              /\ registrations[i].port \in DOMAIN serial_ports
              /\ serial_ports[registrations[i].port].handle = registrations[i].channel.handle

\* C7 witness: two devices with different unit ids and different secondary
\* parameters registered on the same port
C7_Witness ==
    \E i, j \in DOMAIN registrations :
        /\ i < j
        /\ registrations[i].port = registrations[j].port
        /\ registrations[i].unit # registrations[j].unit
        /\ registrations[i].cfg # registrations[j].cfg

Framing(channel) ==
    [baudrate |-> channel.baudrate, parity |-> channel.parity, bytesize |-> channel.bytesize,
     stopbits |-> channel.stopbits, timeout |-> channel.timeout]

\* C8: the framing parameters of a registered port are those of its first
\* registration; every later registration of the name leaves them unchanged,
\* so all devices of a port see the same framing.
C8_FirstFramingWins ==
    \A i \in DOMAIN registrations :
        /\ Framing(registrations[i].channel) = registrations[First(i)].cfg
        /\ Framing(serial_ports[registrations[i].port]) = registrations[First(i)].cfg

\* C8 witness: a port registered a second time with other framing parameters
C8_Witness ==
    \E i \in DOMAIN registrations :
        /\ First(i) # i
        /\ registrations[i].cfg # registrations[First(i)].cfg

\* device d has begun the channel steps of its read (flush, request) and has
\* not received its response yet
Engaged(d) ==
    \/ call[d].pc \in {"flushOutput", "response"}
    \/ call[d].pc = "read_string" /\ call[d].flushed

\* C9: on a shared channel at most one logical read is in flight at a time:
\* the flush / request / response steps of two devices of a port, run on
\* separate threads, are never interleaved.
C9_OneReadInFlight ==
    \A d, e \in Devices :
        (d # e /\ dev[d].port = dev[e].port) => ~(Engaged(d) /\ Engaged(e))

UnpackEnded(d) == call[d].pc = "done" /\ call[d].op = "unpack_registers"

\* HalError exactly when the transport read returned None, and a classified
\* error of the transport read propagates unchanged
HalErrorIffNone(d) ==
    /\ (call[d].result = HalError(call[d].start_addr, call[d].reg_count)) <=> (call[d].data = None)
    /\ (call[d].result.kind = "raise" /\ call[d].result.exc = "HalError") => (call[d].data = None)
    /\ (call[d].data = Nothing) =>
          (/\ call[d].result.kind = "raise"
           /\ call[d].result.exc \in {"CommunicationError", "CRCError"}
           /\ call[d].result.unit = dev[d].address
           /\ call[d].result.cause = LastAnswer(d))

C12_FirstPollCleared ==
    \A d \in Devices :
        /\ (hist[d].reads = 0) => (dev[d].first_poll = TRUE)
        /\ (hist[d].reads > 0 /\ ~InFlight(d)) => (dev[d].first_poll = FALSE)

\* the places of the read attempts in the channel log
Attempts == {i \in DOMAIN trace : trace[i].op = "read_string"}

FlushOps == {"flushInput", "flushOutput"}

\* C14: a read attempt made while the channel is open comes right after a
\* flush of the input buffer then of the output buffer by the same call, with
\* no other channel I/O in between; a read attempt made while the channel is
\* closed has no flush before it.
C14_FlushBeforeRead ==
    \A i \in Attempts :
        IF trace[i].open
        THEN /\ i > 2
             /\ trace[i - 2].op = "flushInput" /\ trace[i - 2].unit = trace[i].unit
             /\ trace[i - 1].op = "flushOutput" /\ trace[i - 1].unit = trace[i].unit
        ELSE \A j \in 1..(i - 1) : trace[j].op \notin FlushOps

\* C14 witness: a read on an open channel has gone out after both flushes,
\* and the line has answered
C14_Witness ==
    \E d \in Devices :
        /\ call[d].pc = "done"
        /\ call[d].op = "_read_registers"
        /\ Len(trace) = 3
        /\ trace[3].op = "read_string" /\ trace[3].open

\* the operations of the recovery sequence, in order
Recovery == <<"close", "sleep", "open", "sleep", "flushInput", "flushOutput">>

\* the recovery sequence was run by the same unit right after step i
RecoveredAfter(i) ==
    /\ Len(trace) >= i + Len(Recovery)
    /\ \A k \in 1..Len(Recovery) :
          /\ trace[i + k].op = Recovery[k]
          /\ trace[i + k].unit = trace[i].unit

\* C15: within one logical read, a faulted attempt that has attempts remaining
\* is followed by the recovery sequence (close, wait, reopen, settle, flush
\* input, flush output), once and in order, before the next attempt.
C15_RecoveryBetweenAttempts ==
    \A d \in Devices :
        (/\ ReadEnded(d)
         /\ LastAnswer(d) \in Faults
         /\ call[d].attempts < dev[d].retries)
        => \E i \in Attempts :
              /\ trace[i].unit = dev[d].address
              /\ RecoveredAfter(i)

\* the steps device d has logged, without the state of the channel
OwnSteps(d) ==
    LET own == SelectSeq(trace, LAMBDA t : t.unit = dev[d].address)
    IN  [k \in DOMAIN own |-> [op |-> own[k].op, ms |-> own[k].ms]]

ResetEnded(d) == call[d].pc = "done" /\ call[d].op = "reset"

\* C16: reset() runs close, wait poll_req_interval, open, settle, flush input,
\* flush output in that order and then reset_device(), whatever the state of
\* the channel on entry; the channel is open when it returns, and no step of
\* it changes communication_error, total_reads, total_errors, terminate or
\* retries.
C16_ResetSequence ==
    [][\A d \in Devices :
          /\ ResetEnded(d)' =>
                /\ OwnSteps(d)' =
                      << [op |-> "close", ms |-> 0],
                         [op |-> "sleep", ms |-> 1000 * dev[d].poll_req_interval],
                         [op |-> "open", ms |-> 0],
                         [op |-> "sleep", ms |-> SettleMs],
                         [op |-> "flushInput", ms |-> 0],
                         [op |-> "flushOutput", ms |-> 0],
                         [op |-> "reset_device", ms |-> 0] >>
                /\ serial(dev[d]).open'
          /\ (call[d].op = "reset" \/ call'[d].op = "reset") =>
                /\ dev'[d].communication_error = dev[d].communication_error
                /\ dev'[d].total_reads = dev[d].total_reads
                /\ dev'[d].total_errors = dev[d].total_errors
                /\ dev'[d].terminate = dev[d].terminate
                /\ dev'[d].retries = dev[d].retries]_vars

\* C16 witness: reset() has returned on a channel that was closed on entry
C16_Witness ==
    \E d \in Devices :
        /\ ResetEnded(d)
        /\ Len(trace) = Len(reset(dev[d]))
        /\ ~trace[1].open
        /\ serial(dev[d]).open

\* device d is inside _read_registers
Reading(d) == call[d].pc \in {"isOpen", "flushInput", "flushOutput", "read_string", "response"}

\* C17: no step of a logical read of one device, whatever its outcome, changes
\* the open/closed state of the shared channel or any field of another device
\* on the port.
C17_ReadSparesTheOthers ==
    [][\A d \in Devices :
          (Reading(d) /\ call'[d] # call[d]) =>
              /\ serial(dev[d]).open' = serial(dev[d]).open
              /\ \A e \in Devices \ {d} : dev'[e] = dev[e]]_vars

\* C17 witness: a read of one device has ended by raising, the channel is
\* open as it was on entry and the other device is as constructed
C17_Witness ==
    \E d \in Devices :
        /\ ReadEnded(d)
        /\ call[d].result # Nothing
        /\ call[d].result.kind = "raise"
        /\ trace[1].open
        /\ serial(dev[d]).open
        /\ \A e \in Devices \ {d} :
              /\ dev[e].communication_error = FALSE
              /\ dev[e].total_reads = 0
              /\ dev[e].total_errors = 0
              /\ dev[e].first_poll = TRUE
              /\ dev[e].terminate = FALSE

\* C18: when the buffer read does not have exactly the number of bytes the
\* unpack format needs, unpack_registers raises; it never returns a value
\* decoded from a buffer with surplus or missing bytes.
C18_FailsFast ==
    \A d \in Devices :
        (/\ UnpackEnded(d)
         /\ call[d].data.kind = "str"
         /\ Len(call[d].data.bytes) # FormatSize(call[d].unpack_format))
        => call[d].result.kind = "raise"

\* the big-endian integer held by the bytes of a register, signed when the
\* descriptor is signed
BigEndianValue(reg, bytes) ==
    LET top == Word(bytes, 1)
        neg == reg.signed /\ top >= 32768
    IN  IF reg.size = 1 THEN PyInt(IF neg THEN -1 ELSE 0, top)
        ELSE PyInt(IF neg THEN top - 65536 ELSE top, Word(bytes, 3))

\* C11: the 2 * size bytes read for a register decode to the big-endian
\* integer they hold, signed exactly when the descriptor is signed (FF FF is
\* -1 signed and 65535 unsigned, 00 2A is 42), both with unpack_registers
\* applied to the register and with the register's own unpack_format.
C11_DecodesBigEndianBySign ==
    (/\ codec.stage = "decoded"
     /\ codec.mode \in {"default", "own"}
     /\ codec.reg.size \in {1, 2}
     /\ Len(codec.bytes) = 2 * codec.reg.size)
    => codec.result = Return(<<BigEndianValue(codec.reg, codec.bytes)>>)

Tag(size, signed) ==
    IF size = 1 THEN (IF signed THEN "h" ELSE "H") ELSE (IF signed THEN "i" ELSE "I")

\* the descriptor was built with the defaults for the arguments left out
BuiltWithDefaults ==
    /\ codec.reg.addr = codec.args.addr
    /\ codec.reg.size = (IF "size" \in DOMAIN codec.args THEN codec.args.size ELSE 1)
    /\ codec.reg.cfgreg = (IF "cfgreg" \in DOMAIN codec.args THEN codec.args.cfgreg ELSE FALSE)
    /\ codec.reg.signed = (IF "signed" \in DOMAIN codec.args THEN codec.args.signed ELSE FALSE)

\* C19 as stated: every descriptor has size 1 or 2 and the format tag of its
\* (size, signed); one built with only an address is (1, false, false).
C19_AsStated ==
    /\ codec.reg.size \in {1, 2}
    /\ BuiltWithDefaults
    /\ (codec.stage # "new" /\ codec.mode = "own") =>
          (codec.fmt = Tag(codec.reg.size, codec.reg.signed))

\* C19 amended: a descriptor keeps the size it was built with, which is not
\* restricted to 1 or 2; its format is 'H' / 'h' for size 1 and 'I' / 'i' for
\* any other size (2 in particular), lower case when signed; one built with
\* only an address is (1, false, false), hence 'H'; cfgreg has no influence.
C19_FormatBySizeAndSign ==
    /\ BuiltWithDefaults
    /\ (codec.stage # "new" /\ codec.mode = "own") =>
          /\ codec.fmt = Tag(codec.reg.size, codec.reg.signed)
          /\ (DOMAIN codec.args = {"addr"}) => (codec.fmt = "H")
          /\ (codec.reg.size = 2) => (codec.fmt \in {"I", "i"})
          /\ (codec.reg.size > 2) => (codec.fmt \in {"I", "i"})

\* C19 witness: the format of a signed configuration register of 2 words
C19_Witness ==
    /\ codec.stage = "format"
    /\ codec.mode = "own"
    /\ codec.reg.size = 2 /\ codec.reg.signed /\ codec.reg.cfgreg
    /\ codec.fmt = "i"

\* C20: poll() re-raises a ValueError of the base poll as CRCError with this
\* device's id and the original error as cause; every other outcome passes
\* through unchanged (the result is returned as is; CommunicationError and
\* any other exception propagate as they are).
C20_PollTranslatesValueError ==
    \A id \in DeviceIds :
        (polled[id] # Nothing) =>
            LET base == polled[id].base
                result == polled[id].result
            IN  IF base.kind = "raise" /\ base.exc \in {"ValueError", "UnicodeDecodeError"}
                THEN /\ result.kind = "raise"
                     /\ result.exc = "CRCError"
                     /\ result.unit = id
                     /\ result.cause = base.error
                ELSE result = base

\* C20 witness: one device's poll turned a ValueError into its CRCError while
\* the other's passed a CommunicationError through
C20_Witness ==
    /\ polled[11] # Nothing
    /\ polled[11].base = Raised(ValueError)
    /\ polled[11].result = CRCError(11, ValueError)
    /\ polled[12] # Nothing
    /\ polled[12].base = CommunicationError(2, IOError)
    /\ polled[12].result = CommunicationError(2, IOError)

====
